---- MODULE Spec2Model ----
(***************************************************************************)
(* EOF Stats plugin: statistics footer on the live (CodeMirror) surface    *)
(* and on the static (reading view) surface, with the configuration store. *)
(*                                                                         *)
(* Text is a sequence of lexemes.  A lexeme is either one character or one *)
(* of the multi-character units "http://", "https://" and "---"; none of   *)
(* the single characters of the alphabet occurs in a multi-character unit, *)
(* so a lexeme sequence denotes exactly one string and the regular         *)
(* expressions of calculateStats can only match on lexeme boundaries.      *)
(* A rendered string is a sequence of string pieces (its concatenation).   *)
(*                                                                         *)
(* The plugin modelled is the one that reconfigures a Compartment on save  *)
(* and builds the footer of both surfaces with createEOFStatsElement.      *)
(***************************************************************************)
EXTENDS Integers, Sequences, FiniteSets, TLC

\* ------------------------------------------------------------------ bounds
\* number of editor leaves of the workspace
NumViews == 2
\* longest live buffer, in lexemes
MaxDocLen == 2
\* saveSettings calls that may be awaiting saveData at the same time
MaxPendingSaves == 2
\* onChange events of the settings tab in one behaviour
MaxChanges == 2

\* longest text of the exhaustive inputs of the functions checked on their
\* own, in lexemes
MaxTextLen == 4

\* ------------------------------------------------------------ text helpers
NL == "\n"
SP == " "

\* lexemes a live buffer is edited with
LiveAlphabet == {"http://", "a"}

\* what the file of the reading view may hold
FileContents ==
  {<<"http://", "a">>, <<"a", NL, "[", "[", "a">>, <<"a", NL, "a", NL>>}

\* buffers a markdown leaf opens on
OpenDocs == {<<>>}

\* \s of the regular expressions, restricted to the alphabet
Whitespace == {SP, NL}

\* length of a lexeme in UTF-16 code units (String.length)
LexLen(x) == CASE x = "http://" -> 7
               [] x = "https://" -> 8
               [] x = "---" -> 3
               [] OTHER -> 1

RECURSIVE StrLen(_)
\* content.length
StrLen(s) == IF s = <<>> THEN 0 ELSE LexLen(Head(s)) + StrLen(Tail(s))

\* the part of s from lexeme index i (1-based) to the end
Drop(s, i) == SubSeq(s, i, Len(s))

\* ------------------------------------------------------------- settings
\* null / undefined: a value that is no record of settings fields
Null == [null |-> TRUE]

Fields == {"showUrls", "showLinks", "statsColor", "lineColor", "eofColor"}

\* the value of the module constant DEFAULT_SETTINGS as compiled in
DefaultSettingsValue ==
  [showUrls |-> TRUE, showLinks |-> TRUE, statsColor |-> "#999999",
   lineColor |-> "#999999", eofColor |-> "#999999"]

\* Object.assign(target, source): own properties of source copied over
\* target; a null source is skipped.  The result is the (mutated) target.
ObjectAssign(target, source) ==
  IF source = Null THEN target
  ELSE [k \in (DOMAIN target) \cup (DOMAIN source) |->
          IF k \in DOMAIN source THEN source[k] ELSE target[k]]

\* ---------------------------------------------------- Statistics Extractor
\* content.replace(/^---[\s\S]*?---\n?/, ""): anchored at index 0, lazy up
\* to the first later "---", then one optional newline
StripFrontmatter(content) ==
  IF Len(content) >= 2 /\ content[1] = "---"
       /\ \E j \in 2..Len(content) : content[j] = "---"
  THEN LET j == CHOOSE k \in 2..Len(content) :
                  /\ content[k] = "---"
                  /\ \A m \in 2..(k - 1) : content[m] # "---"
           e == IF j < Len(content) /\ content[j + 1] = NL THEN j + 1 ELSE j
       IN  Drop(content, e + 1)
  ELSE content

\* the negated class [^\s)\]>] : what a URL does not continue with
UrlStop == Whitespace \cup {")", "]", ">"}

\* a target that ends at "]" only: alias and section stay in it
LinkStop_BracketOnly == {"]"}

\* the negated class [^\]|#] : what a link target does not contain
LinkStop == {"]", "|", "#"}

RECURSIVE RunEnd(_, _, _)
\* greedy [^stop]+ : the last index of the run of lexemes outside stop that
\* starts at i (i - 1 when the run is empty)
RunEnd(s, i, stop) ==
  IF i <= Len(s) /\ s[i] \notin stop THEN RunEnd(s, i + 1, stop) ELSE i - 1

RECURSIVE UrlMatches(_, _)
\* s.match(/https?:\/\/[^\s)\]>]+/g) from index i: leftmost non-overlapping
\* matches, as the set the code puts them in
UrlMatches(s, i) ==
  IF i > Len(s) THEN {}
  ELSE IF s[i] \in {"http://", "https://"} /\ RunEnd(s, i + 1, UrlStop) > i
       THEN LET e == RunEnd(s, i + 1, UrlStop)
            IN  {SubSeq(s, i, e)} \cup UrlMatches(s, e + 1)
       ELSE UrlMatches(s, i + 1)

RECURSIVE LinkMatches(_, _)
\* the loop over /\[\[([^\]|#]+)/g .exec from index i: the set of match[1]
LinkMatches(s, i) ==
  IF i + 2 > Len(s) THEN {}
  ELSE IF s[i] = "[" /\ s[i + 1] = "[" /\ RunEnd(s, i + 2, LinkStop) > i + 1
       THEN LET e == RunEnd(s, i + 2, LinkStop)
            IN  {SubSeq(s, i + 2, e)} \cup LinkMatches(s, e + 1)
       ELSE LinkMatches(s, i + 1)

RECURSIVE UrlMatchCount(_, _)
\* the number of matches of the URL pattern from index i, repeats included
UrlMatchCount(s, i) ==
  IF i > Len(s) THEN 0
  ELSE IF s[i] \in {"http://", "https://"} /\ RunEnd(s, i + 1, UrlStop) > i
       THEN 1 + UrlMatchCount(s, RunEnd(s, i + 1, UrlStop) + 1)
       ELSE UrlMatchCount(s, i + 1)

\* the URL matches counted without the Set
calculateStats_NoUrlSet(content) ==
  LET contentWithoutFrontmatter == StripFrontmatter(content)
      links == LinkMatches(contentWithoutFrontmatter, 1)
  IN  [urls |-> UrlMatchCount(contentWithoutFrontmatter, 1),
       links |-> Cardinality(links)]

calculateStats(content) ==
  LET contentWithoutFrontmatter == StripFrontmatter(content)
      urls == UrlMatches(contentWithoutFrontmatter, 1)
      links == LinkMatches(contentWithoutFrontmatter, 1)
  IN  [urls |-> Cardinality(urls), links |-> Cardinality(links)]

\* ------------------------------------------------------- Display Formatter
Digit(d) == CASE d = 0 -> "0" [] d = 1 -> "1" [] d = 2 -> "2" [] d = 3 -> "3"
              [] d = 4 -> "4" [] d = 5 -> "5" [] d = 6 -> "6" [] d = 7 -> "7"
              [] d = 8 -> "8" [] d = 9 -> "9"

RECURSIVE Grouped(_, _)
\* decimal digits of n, most significant first, a "," before every group of
\* three; k counts the digits already written to the right
Grouped(n, k) ==
  LET sep == IF k > 0 /\ k % 3 = 0 THEN <<",">> ELSE <<>>
  IN  IF n < 10 THEN <<Digit(n)>> \o sep
      ELSE Grouped(n \div 10, k + 1) \o <<Digit(n % 10)>> \o sep

\* num.toLocaleString() of a non-negative integer (grouping locale)
formatNumber(num) == Grouped(num, 0)

RECURSIVE Join(_, _)
\* parts.join(sep)
Join(parts, sep) ==
  IF parts = <<>> THEN <<>>
  ELSE IF Len(parts) = 1 THEN parts[1]
  ELSE parts[1] \o <<sep>> \o Join(Tail(parts), sep)

\* the segments in the other order
buildStatsString_LinksFirst(stats, settings) ==
  LET p1 == IF settings.showUrls
            THEN << <<"URLs: ">> \o formatNumber(stats.urls) >> ELSE <<>>
      p2 == IF settings.showLinks
            THEN << <<"Links: ">> \o formatNumber(stats.links) >> ELSE <<>>
  IN  Join(p2 \o p1, " | ")

buildStatsString(stats, settings) ==
  LET p1 == IF settings.showUrls
            THEN << <<"URLs: ">> \o formatNumber(stats.urls) >> ELSE <<>>
      p2 == IF settings.showLinks
            THEN << <<"Links: ">> \o formatNumber(stats.links) >> ELSE <<>>
  IN  Join(p1 \o p2, " | ")

\* --------------------------------------------------------- Footer Renderer
\* a footer whose stats line is created whatever the string is
createEOFStatsElement_AlwaysStatsLine(stats, settings) ==
  LET statsString == buildStatsString(stats, settings)
      statsDiv == [cls |-> "eof-stats-line", text |-> statsString,
                   color |-> settings.statsColor, children |-> <<>>]
      line == [cls |-> "eof-line-horizontal", text |-> <<>>,
               color |-> settings.lineColor, children |-> <<>>]
      textDiv == [cls |-> "eof-text", text |-> <<"EOF">>,
                  color |-> settings.eofColor, children |-> <<>>]
      eofDiv == [cls |-> "eof-indicator", text |-> <<>>, color |-> "",
                 children |-> <<line, textDiv, line>>]
  IN  [cls |-> "eof-stats-container", text |-> <<>>, color |-> "",
       children |-> <<statsDiv, eofDiv>>]

createEOFStatsElement(stats, settings) ==
  LET statsString == buildStatsString(stats, settings)
      statsDiv == [cls |-> "eof-stats-line", text |-> statsString,
                   color |-> settings.statsColor, children |-> <<>>]
      line == [cls |-> "eof-line-horizontal", text |-> <<>>,
               color |-> settings.lineColor, children |-> <<>>]
      textDiv == [cls |-> "eof-text", text |-> <<"EOF">>,
                  color |-> settings.eofColor, children |-> <<>>]
      eofDiv == [cls |-> "eof-indicator", text |-> <<>>, color |-> "",
                 children |-> <<line, textDiv, line>>]
  IN  [cls |-> "eof-stats-container", text |-> <<>>, color |-> "",
       children |-> (IF statsString # <<>> THEN <<statsDiv>> ELSE <<>>)
                      \o <<eofDiv>>]

\* ------------------------------------------------------------------ state
VARIABLES
  loaded,            \* onload has run (settings tab, field, post processor registered)
  DEFAULT_SETTINGS,  \* the module-level defaults object
  settings,          \* plugin.settings: the shared, mutable record (Null before load)
  data,              \* what loadData() returns: the persisted record, or Null
  saving,            \* saveSettings calls awaiting saveData: the records being written
  views,             \* the editor leaves: buffer text and the field's DecorationSet
  rerender,          \* a leaf's previewMode.rerender(true) was called, no pass since
  nChanges,          \* onChange events so far
  file,              \* what the vault holds at ctx.sourcePath
  fragments,         \* the rendered sections of the current reading-view pass
  unhandled,         \* an exception or unhandled rejection reached the render pipeline
  call,              \* an evaluation of the pure functions on its own: the
                     \* arguments and the values returned so far (Null: none)
  last               \* the operation that ran last: its name, the view or section
                     \* it ran on, and for an edit the offset it changed

\* the variables of the static surface
static == <<file, fragments, unhandled>>

vars == <<loaded, DEFAULT_SETTINGS, settings, data, saving, views, rerender, nChanges,
          file, fragments, unhandled, call, last>>

ViewIds == 1..NumViews

\* a leaf with no markdown editor in it
ClosedView == [open |-> FALSE, doc |-> <<>>, decorations |-> {}]

\* values the settings tab's color inputs deliver ("" is a cleared input)
ColorInputs == {"", "#ff0000"}

\* persisted records: each field either absent or set by an earlier session
PersistedValue == [showUrls |-> FALSE, showLinks |-> FALSE, statsColor |-> "#ff0000",
                   lineColor |-> "#00ff00", eofColor |-> "#0000ff"]

PersistedRecords ==
  {Null} \cup {[k \in D |-> PersistedValue[k]] : D \in SUBSET Fields}

\* the persisted record the live views' specification starts from
SomePersisted == {[showUrls |-> FALSE, lineColor |-> "#00ff00"]}

\* ---------------------------------------------------- Live-Surface Adapter
\* the widget handed plugin.settings itself instead of a copy
SettingsCopy_Shared(s) == [kind |-> "shared", val |-> s]

\* { ...settings }: a fresh object holding the values of settings now
SettingsCopy(s) == [kind |-> "own", val |-> s]

\* the record a widget's settings reference denotes while plugin.settings is s
Deref(ref, s) == IF ref.kind = "shared" THEN s ELSE ref.val

\* an eq that compares the counts and the toggles and no color
WidgetEq_NoColors(this, other, s) ==
  LET a == Deref(this.settings, s)
      b == Deref(other.settings, s)
  IN  /\ this.stats.urls = other.stats.urls
      /\ this.stats.links = other.stats.links
      /\ a.showUrls = b.showUrls
      /\ a.showLinks = b.showLinks

\* EOFStatsWidget.eq, evaluated while plugin.settings is s
WidgetEq(this, other, s) ==
  LET a == Deref(this.settings, s)
      b == Deref(other.settings, s)
  IN  /\ this.stats.urls = other.stats.urls
      /\ this.stats.links = other.stats.links
      /\ a.showUrls = b.showUrls
      /\ a.showLinks = b.showLinks
      /\ a.statsColor = b.statsColor
      /\ a.lineColor = b.lineColor
      /\ a.eofColor = b.eofColor

\* a widget that draws the EOF block and never the stats line
toDOM_EofOnly(widget, s) ==
  createEOFStatsElement(widget.stats,
    [Deref(widget.settings, s) EXCEPT !.showUrls = FALSE, !.showLinks = FALSE])

\* EOFStatsWidget.toDOM, evaluated while plugin.settings is s
toDOM(widget, s) == createEOFStatsElement(widget.stats, Deref(widget.settings, s))

\* the widget anchored at a fixed offset instead of content.length
buildEOFDecoration_FixedAnchor(content, s) ==
  {[from |-> 0, side |-> 1, block |-> TRUE,
    widget |-> [stats |-> calculateStats(content), settings |-> SettingsCopy(s)]]}

buildEOFDecoration(content, s) ==
  LET stats == calculateStats(content)
      settingsCopy == SettingsCopy(s)
      widget == [stats |-> stats, settings |-> settingsCopy]
  IN  {[from |-> StrLen(content), side |-> 1, block |-> TRUE, widget |-> widget]}

\* a ChangeSet is a sequence of at most one replacement of the code units
\* from..to by ins code units; ChangeSet.mapPos with assoc = side
MapPos(changes, pos, side) ==
  IF changes = <<>> THEN pos
  ELSE LET c == changes[1]
       IN  IF pos < c.from \/ (pos = c.from /\ side < 0) THEN pos
           ELSE IF pos >= c.to THEN pos - (c.to - c.from) + c.ins
           ELSE c.from + c.ins

\* DecorationSet.map(changes)
MapDecorations(decorations, changes) ==
  {[d EXCEPT !.from = MapPos(changes, d.from, d.side)] : d \in decorations}

\* Transaction.docChanged
docChanged(tr) == tr.changes # <<>>

\* the StateField's create(state)
FieldCreate(doc, s) == buildEOFDecoration(doc, s)

\* update that remaps the old set through the changes and never rebuilds
FieldUpdate_MapOnly(decorations, tr, newDoc, s) ==
  MapDecorations(decorations, tr.changes)

\* update that rebuilds the footer on every transaction
FieldUpdate_Rebuild(decorations, tr, newDoc, s) ==
  buildEOFDecoration(newDoc, s)

\* the StateField's update(decorations, tr); newDoc is tr.state.doc
FieldUpdate(decorations, tr, newDoc, s) ==
  IF ~docChanged(tr) THEN MapDecorations(decorations, tr.changes)
  ELSE buildEOFDecoration(newDoc, s)

\* the transactions a user can dispatch on buffer doc: a selection or
\* viewport change, the insertion of one lexeme, the deletion of one lexeme
InsertTr(doc, i, x) ==
  [changes |-> <<[from |-> StrLen(SubSeq(doc, 1, i)),
                  to |-> StrLen(SubSeq(doc, 1, i)), ins |-> LexLen(x)]>>,
   newDoc |-> SubSeq(doc, 1, i) \o <<x>> \o Drop(doc, i + 1)]

DeleteTr(doc, i) ==
  [changes |-> <<[from |-> StrLen(SubSeq(doc, 1, i - 1)),
                  to |-> StrLen(SubSeq(doc, 1, i)), ins |-> 0]>>,
   newDoc |-> SubSeq(doc, 1, i - 1) \o Drop(doc, i + 1)]

SelectionTr(doc) == [changes |-> <<>>, newDoc |-> doc]

Transactions(doc) ==
  {SelectionTr(doc)}
    \cup {InsertTr(doc, i, x) : i \in 0..Len(doc),
                                x \in IF Len(doc) < MaxDocLen THEN LiveAlphabet ELSE {}}
    \cup {DeleteTr(doc, i) : i \in 1..Len(doc)}

\* ------------------------------------------------------ Configuration Store
\* the plugin object constructed and not yet loaded; the store holds one of
\* the records of persisted
InitWith(persisted) ==
  /\ loaded = FALSE
  /\ DEFAULT_SETTINGS = DefaultSettingsValue
  /\ settings = Null
  /\ data \in persisted
  /\ saving = <<>>
  /\ views = [v \in ViewIds |-> ClosedView]
  /\ rerender = FALSE
  /\ nChanges = 0
  /\ file = [kind |-> "file", content |-> <<"http://", "a">>]
  /\ fragments = <<>>
  /\ unhandled = FALSE

\* the persisted record taken wholesale, the defaults only when there is none
LoadSettings_Replace ==
  /\ settings' = IF data = Null THEN DEFAULT_SETTINGS ELSE data
  /\ UNCHANGED DEFAULT_SETTINGS

\* loadSettings
LoadSettings ==
  /\ settings' = ObjectAssign(ObjectAssign(<<>>, DEFAULT_SETTINGS), data)
  /\ UNCHANGED DEFAULT_SETTINGS

\* onload: loadSettings, then the registrations
OnLoad ==
  /\ ~loaded
  /\ LoadSettings
  /\ loaded' = TRUE
  /\ last' = [op |-> "onload", view |-> 0, at |-> 0]
  /\ UNCHANGED <<call, data, saving, views, rerender, nChanges, static>>

\* the synchronous start of saveSettings(): saveData(this.settings) is called
\* with the record as it is now and the caller awaits it
SaveSettingsBegin(s) == saving' = Append(saving, s)

\* a handler whose save tells the views first and persists afterwards
OnChange_PropagateFirst(field, value) ==
  /\ loaded
  /\ Len(saving) < MaxPendingSaves
  /\ nChanges < MaxChanges
  /\ nChanges' = nChanges + 1
  /\ settings' = [settings EXCEPT ![field] = value]
  /\ views' = [v \in ViewIds |->
                 IF views[v].open
                 THEN [views[v] EXCEPT
                         !.decorations = FieldCreate(views[v].doc, settings')]
                 ELSE views[v]]
  /\ rerender' = (rerender \/ \E v \in ViewIds : views[v].open)
  /\ SaveSettingsBegin(settings')
  /\ last' = [op |-> "onChange", view |-> 0, at |-> 0]
  /\ UNCHANGED <<call, loaded, DEFAULT_SETTINGS, data, static>>

\* an onChange handler of the settings tab assigning value to one field
OnChange(field, value) ==
  /\ loaded
  /\ Len(saving) < MaxPendingSaves
  /\ nChanges < MaxChanges
  /\ nChanges' = nChanges + 1
  /\ settings' = [settings EXCEPT ![field] = value]
  /\ SaveSettingsBegin(settings')
  /\ last' = [op |-> "onChange", view |-> 0, at |-> 0]
  /\ UNCHANGED <<call, loaded, DEFAULT_SETTINGS, data, views, rerender, static>>

OnChangeShowUrls == \E value \in BOOLEAN : OnChange("showUrls", value)

OnChangeShowLinks == \E value \in BOOLEAN : OnChange("showLinks", value)

\* the input's value assigned as it is
OnChangeStatsColor_NoFallback ==
  \E value \in ColorInputs : OnChange("statsColor", value)

\* value || DEFAULT_SETTINGS.statsColor
OnChangeStatsColor ==
  \E value \in ColorInputs :
    OnChange("statsColor", IF value # "" THEN value ELSE DEFAULT_SETTINGS.statsColor)

OnChangeLineColor ==
  \E value \in ColorInputs :
    OnChange("lineColor", IF value # "" THEN value ELSE DEFAULT_SETTINGS.lineColor)

OnChangeEofColor ==
  \E value \in ColorInputs :
    OnChange("eofColor", IF value # "" THEN value ELSE DEFAULT_SETTINGS.eofColor)

RemoveAt(q, i) == SubSeq(q, 1, i - 1) \o SubSeq(q, i + 1, Len(q))

\* the views told nothing: only the reading views are asked to re-render
updateEditorExtension_NoReconfigure ==
  /\ views' = views
  /\ rerender' = (rerender \/ \E v \in ViewIds : views[v].open)

\* updateEditorExtension: every markdown leaf gets the compartment
\* reconfigured with a new field (whose create runs on the leaf's state) and
\* its reading view asked to re-render
updateEditorExtension ==
  /\ views' = [v \in ViewIds |->
                 IF views[v].open
                 THEN [views[v] EXCEPT
                         !.decorations = FieldCreate(views[v].doc, settings)]
                 ELSE views[v]]
  /\ rerender' = (rerender \/ \E v \in ViewIds : views[v].open)

\* a save that propagates the record it persisted, not plugin.settings
SaveDataResolve_Stale(i) ==
  /\ data' = saving[i]
  /\ saving' = RemoveAt(saving, i)
  /\ views' = [v \in ViewIds |->
                 IF views[v].open
                 THEN [views[v] EXCEPT
                         !.decorations = FieldCreate(views[v].doc, saving[i])]
                 ELSE views[v]]
  /\ rerender' = (rerender \/ \E v \in ViewIds : views[v].open)
  /\ last' = [op |-> "saveResolved", view |-> 0, at |-> 0]
  /\ UNCHANGED <<call, loaded, DEFAULT_SETTINGS, settings, nChanges, static>>

\* saveData of the i-th pending save resolves; saveSettings continues
SaveDataResolve(i) ==
  /\ data' = saving[i]
  /\ saving' = RemoveAt(saving, i)
  /\ updateEditorExtension
  /\ last' = [op |-> "saveResolved", view |-> 0, at |-> 0]
  /\ UNCHANGED <<call, loaded, DEFAULT_SETTINGS, settings, nChanges, static>>

\* a failed save that puts the stored record back into plugin.settings
SaveDataReject_Rollback(i) ==
  /\ saving' = RemoveAt(saving, i)
  /\ settings' = ObjectAssign(ObjectAssign(<<>>, DEFAULT_SETTINGS), data)
  /\ last' = [op |-> "saveRejected", view |-> 0, at |-> 0]
  /\ UNCHANGED <<call, loaded, DEFAULT_SETTINGS, data, views, rerender, nChanges, static>>

\* saveData of the i-th pending save rejects; saveSettings ends there
SaveDataReject(i) ==
  /\ saving' = RemoveAt(saving, i)
  /\ last' = [op |-> "saveRejected", view |-> 0, at |-> 0]
  /\ UNCHANGED <<call, loaded, DEFAULT_SETTINGS, settings, data, views, rerender, nChanges, static>>

\* ------------------------------------------------------------ live views
\* a markdown leaf opens on a buffer: EditorState.create runs the field's create
OpenView(v) ==
  /\ loaded
  /\ ~views[v].open
  /\ \E doc \in OpenDocs :
       views' = [views EXCEPT ![v] =
                   [open |-> TRUE, doc |-> doc,
                    decorations |-> FieldCreate(doc, settings)]]
  /\ last' = [op |-> "open", view |-> v, at |-> 0]
  /\ UNCHANGED <<call, loaded, DEFAULT_SETTINGS, settings, data, saving, rerender, nChanges, static>>

\* view.dispatch(tr): the field's update runs on the transaction
Dispatch(v) ==
  /\ views[v].open
  /\ \E tr \in Transactions(views[v].doc) :
       /\ views' = [views EXCEPT ![v] =
                      [open |-> TRUE, doc |-> tr.newDoc,
                       decorations |->
                         FieldUpdate(views[v].decorations, tr, tr.newDoc, settings)]]
       /\ last' = [op |-> IF docChanged(tr) THEN "edit" ELSE "select", view |-> v,
                    at |-> IF docChanged(tr) THEN tr.changes[1].from ELSE 0]
  /\ UNCHANGED <<call, loaded, DEFAULT_SETTINGS, settings, data, saving, rerender, nChanges, static>>

Init == InitWith(SomePersisted)
  /\ call = Null /\ last = [op |-> "init", view |-> 0, at |-> 0]

Next ==
  \/ OnLoad
  \/ OnChangeShowUrls
  \/ OnChangeShowLinks
  \/ OnChangeStatsColor
  \/ OnChangeLineColor
  \/ OnChangeEofColor
  \/ \E i \in 1..Len(saving) : SaveDataResolve(i)
  \/ \E i \in 1..Len(saving) : SaveDataReject(i)
  \/ \E v \in ViewIds : OpenView(v)
  \/ \E v \in ViewIds : Dispatch(v)

Spec == Init /\ [][Next]_vars

\* ---------------------------------------------------- Static-Surface Adapter
RECURSIVE Split(_, _)
\* content.split(sep): the pieces between the occurrences of lexeme sep
Split(s, sep) ==
  IF \A i \in 1..Len(s) : s[i] # sep THEN <<s>>
  ELSE LET i == CHOOSE k \in 1..Len(s) :
                  s[k] = sep /\ \A m \in 1..(k - 1) : s[m] # sep
       IN  <<SubSeq(s, 1, i - 1)>> \o Split(Drop(s, i + 1), sep)

\* the sections the static pipeline renders a document of n lines as: the
\* lines 0..n-1 cut into consecutive ranges after the lines of cuts
Sections(n, cuts) ==
  LET ends == cuts \cup {n}
      start(e) == IF \E c \in ends : c < e
                  THEN CHOOSE c \in ends : c < e /\ \A d \in ends : d < e => d <= c
                  ELSE 0
      ordered == CHOOSE q \in [1..Cardinality(ends) -> ends] :
                   \A i, j \in 1..Cardinality(ends) : i < j => q[i] < q[j]
  IN  [k \in 1..Cardinality(ends) |->
         [lineStart |-> start(ordered[k]), lineEnd |-> ordered[k] - 1]]

\* the reading view renders the document as the vault holds it now and will
\* call the post processor once per section; getSectionInfo answers null for
\* at most one of them.  The elements of the pass before are dropped with
\* their sections; a new pass starts once none of them awaits a read.
RenderPass ==
  /\ loaded
  /\ file.kind = "file"
  /\ \A k \in 1..Len(fragments) : fragments[k].st # "reading"
  /\ LET n == Len(Split(file.content, NL))
     IN  \E cuts \in SUBSET (1..(n - 1)) :
           LET secs == Sections(n, cuts)
           IN  \E noInfo \in {{}} \cup {{k} : k \in 1..Len(secs)} :
                 fragments' = [k \in 1..Len(secs) |->
                                 [info |-> IF k \in noInfo THEN Null ELSE secs[k],
                                  st |-> "rendered", lookedUp |-> FALSE,
                                  invokedWith |-> Null,
                                  content |-> Null, el |-> <<>>]]
  /\ rerender' = FALSE
  /\ last' = [op |-> "render", view |-> 0, at |-> 0]
  /\ UNCHANGED <<call, loaded, DEFAULT_SETTINGS, settings, data, saving, views, nChanges,
                 file, unhandled>>

\* the file looked up before the section info is tested
addEOFToReadingView_LookupFirst(k) ==
  IF fragments[k].info = Null \/ file.kind # "file"
  THEN fragments' = [fragments EXCEPT ![k].st = "returned", ![k].lookedUp = TRUE]
  ELSE fragments' = [fragments EXCEPT ![k].st = "reading", ![k].lookedUp = TRUE,
                                      ![k].invokedWith = settings]

\* the synchronous part of addEOFToReadingView(el, ctx) for section k.
\* invokedWith notes what plugin.settings held when the read was started: the
\* code keeps no such value, the field is history only
addEOFToReadingView(k) ==
  LET sectionInfo == fragments[k].info
  IN  IF sectionInfo = Null
      THEN fragments' = [fragments EXCEPT ![k].st = "returned"]
      ELSE IF file.kind # "file"
           THEN fragments' = [fragments EXCEPT ![k].st = "returned",
                                               ![k].lookedUp = TRUE]
           ELSE fragments' = [fragments EXCEPT ![k].st = "reading",
                                               ![k].lookedUp = TRUE,
                                               ![k].invokedWith = settings]

\* the post processor registered in onload is called for section k
PostProcess(k) ==
  /\ fragments[k].st = "rendered"
  /\ addEOFToReadingView(k)
  /\ last' = [op |-> "postProcess", view |-> k, at |-> 0]
  /\ UNCHANGED <<call, loaded, DEFAULT_SETTINGS, settings, data, saving, views, rerender,
                 nChanges, file, unhandled>>

\* the then-callback with > in place of >=
ThenCallback_Strict(k, content) ==
  IF fragments[k].info.lineEnd > Len(Split(content, NL)) - 1
  THEN fragments' =
         [fragments EXCEPT
            ![k].st = "resolved", ![k].content = content,
            ![k].el = Append(@, createEOFStatsElement(calculateStats(content),
                                                      settings))]
  ELSE fragments' = [fragments EXCEPT ![k].st = "resolved",
                                      ![k].content = content]

\* the then-callback without the test for the last section
ThenCallback_Always(k, content) ==
  fragments' =
    [fragments EXCEPT
       ![k].st = "resolved", ![k].content = content,
       ![k].el = Append(@, createEOFStatsElement(calculateStats(content),
                                                 settings))]

\* a then-callback that remembers: no footer once a section of the pass has one
ThenCallback_Remembering(k, content) ==
  LET lastLineIndex == Len(Split(content, NL)) - 1
  IN  IF /\ fragments[k].info.lineEnd >= lastLineIndex
         /\ \A m \in 1..Len(fragments) : fragments[m].el = <<>>
      THEN fragments' =
             [fragments EXCEPT
                ![k].st = "resolved", ![k].content = content,
                ![k].el = Append(@, createEOFStatsElement(calculateStats(content),
                                                          settings))]
      ELSE fragments' = [fragments EXCEPT ![k].st = "resolved",
                                          ![k].content = content]

\* a then-callback that renders with the settings of the time of the call
ThenCallback_InvocationConfig(k, content) ==
  LET lastLineIndex == Len(Split(content, NL)) - 1
  IN  IF fragments[k].info.lineEnd >= lastLineIndex
      THEN fragments' =
             [fragments EXCEPT
                ![k].st = "resolved", ![k].content = content,
                ![k].el = Append(@, createEOFStatsElement(calculateStats(content),
                                                          fragments[k].invokedWith))]
      ELSE fragments' = [fragments EXCEPT ![k].st = "resolved",
                                          ![k].content = content]

\* the then-callback of cachedRead for section k, given the content read
ThenCallback(k, content) ==
  LET lastLineIndex == Len(Split(content, NL)) - 1
  IN  IF fragments[k].info.lineEnd >= lastLineIndex
      THEN LET stats == calculateStats(content)
           IN  fragments' =
                 [fragments EXCEPT
                    ![k].st = "resolved", ![k].content = content,
                    ![k].el = Append(@, createEOFStatsElement(stats, settings))]
      ELSE fragments' = [fragments EXCEPT ![k].st = "resolved",
                                          ![k].content = content]

\* cachedRead of section k's call resolves with the content the vault holds
CachedReadResolve(k) ==
  /\ fragments[k].st = "reading"
  /\ file.kind = "file"
  /\ ThenCallback(k, file.content)
  /\ last' = [op |-> "readResolved", view |-> k, at |-> 0]
  /\ UNCHANGED <<call, loaded, DEFAULT_SETTINGS, settings, data, saving, views, rerender,
                 nChanges, file, unhandled>>

\* the promise chain without its catch: the rejection goes unhandled
CatchCallback_Missing(k) ==
  /\ fragments' = [fragments EXCEPT ![k].st = "rejected"]
  /\ unhandled' = TRUE

\* the .catch(() => {}) of the promise chain: the rejection ends here
CatchCallback(k) ==
  /\ fragments' = [fragments EXCEPT ![k].st = "rejected"]
  /\ UNCHANGED unhandled

\* cachedRead of section k's call rejects
CachedReadReject(k) ==
  /\ fragments[k].st = "reading"
  /\ CatchCallback(k)
  /\ last' = [op |-> "readRejected", view |-> k, at |-> 0]
  /\ UNCHANGED <<call, loaded, DEFAULT_SETTINGS, settings, data, saving, views, rerender,
                 nChanges, file>>

\* the vault: the file is rewritten, deleted, or its path taken by a folder
ModifyFile ==
  /\ \E c \in FileContents :
       /\ file # [kind |-> "file", content |-> c]
       /\ file' = [kind |-> "file", content |-> c]
  /\ last' = [op |-> "modify", view |-> 0, at |-> 0]
  /\ UNCHANGED <<call, loaded, DEFAULT_SETTINGS, settings, data, saving, views, rerender,
                 nChanges, fragments, unhandled>>

DeleteFile ==
  /\ file.kind = "file"
  /\ \E kind \in {"none", "folder"} : file' = [kind |-> kind, content |-> <<>>]
  /\ last' = [op |-> "delete", view |-> 0, at |-> 0]
  /\ UNCHANGED <<call, loaded, DEFAULT_SETTINGS, settings, data, saving, views, rerender,
                 nChanges, fragments, unhandled>>

NextStatic ==
  \/ OnLoad
  \/ OnChangeShowUrls
  \/ RenderPass
  \/ \E k \in 1..Len(fragments) : PostProcess(k)
  \/ \E k \in 1..Len(fragments) : CachedReadResolve(k)
  \/ \E k \in 1..Len(fragments) : CachedReadReject(k)
  \/ ModifyFile
  \/ DeleteFile

InitStatic == InitWith({Null})
  /\ call = Null /\ last = [op |-> "init", view |-> 0, at |-> 0]

\* the configuration store alone, over every persisted record
InitConfig == InitWith(PersistedRecords)
  /\ call = Null /\ last = [op |-> "init", view |-> 0, at |-> 0]

NextConfig ==
  \/ OnLoad
  \/ OnChangeShowUrls
  \/ OnChangeShowLinks
  \/ OnChangeStatsColor
  \/ OnChangeLineColor
  \/ OnChangeEofColor
  \/ \E i \in 1..Len(saving) : SaveDataResolve(i)
  \/ \E i \in 1..Len(saving) : SaveDataReject(i)

SpecConfig == InitConfig /\ [][NextConfig]_vars

SpecStatic == InitStatic /\ [][NextStatic]_vars

\* ------------------------------------------- the pure functions on their own
\* lexemes of the exhaustive text inputs
PureAlphabet == {"---", NL, "http://", "a", "A", "[", "]", "|"}

\* longer documents: front matter blocks, "---" runs that are none, links
\* with aliases and sections, URLs ended by each of the stop characters
ExampleTexts ==
  {<<"---", NL, "http://", "a", NL, "---", NL, "http://", "A">>,
   <<"---", NL, "[", "[", "a", "]", "]", NL, "---", NL, "[", "[", "A", "]", "]">>,
   <<"---", NL, "a", NL, "---", "[", "[", "a", "]", "]">>,
   <<"a", NL, "---", NL, "http://", "a", NL, "---", NL>>,
   <<"---", "-", NL, "http://", "a", NL, "---", "-", NL>>,
   <<"---", SP, "http://", "a", SP, "---", SP, "[", "[", "a", "]", "]">>,
   <<"[", "[", "a", "]", "]", SP, "[", "[", "a", "|", "A", "]", "]", SP,
     "[", "[", "a", "#", "A", "]", "]">>,
   <<"[", "[", "a", "]", "]", "[", "[", "A", "]", "]", "[", "[", "a", SP, "]", "]">>,
   <<"https://", "a", ")", "http://", "a", SP, "http://", "a", ">", "http://",
     "a", "]", "http://", "a", NL, "https://", "a">>,
   <<"http://", "a", SP, "http://", "A", SP, "http://", "a", SP, "http://">>}

\* the texts calculateStats is evaluated on
Texts == (UNION {[1..n -> PureAlphabet] : n \in 0..MaxTextLen}) \cup ExampleTexts

\* the counts buildStatsString and createEOFStatsElement are evaluated on
\* when they are given counts directly
StatsInputs == {[urls |-> u, links |-> l] : u, l \in {0, 7, 1234}}

\* the settings records they are evaluated with
SettingsInputs ==
  {[showUrls |-> su, showLinks |-> sl, statsColor |-> c1, lineColor |-> c2,
    eofColor |-> c3] :
     su, sl \in BOOLEAN, c1 \in {"#999999", "#ff0000"},
     c2 \in {"#999999", "#00ff00"}, c3 \in {"#999999", "#0000ff"}}

\* an evaluation starts from a text, to be counted and then rendered with the
\* default settings, or from counts and a settings record
Calls ==
  {[given |-> "text", content |-> c, settings |-> DefaultSettingsValue,
    stats |-> Null, statsString |-> Null, el |-> Null] : c \in Texts}
  \cup
  {[given |-> "counts", content |-> <<>>, settings |-> s, stats |-> st,
    statsString |-> Null, el |-> Null] : s \in SettingsInputs, st \in StatsInputs}

\* calculateStats(content) returns
CalculateStats ==
  /\ call # Null
  /\ call.given = "text"
  /\ call.stats = Null
  /\ call' = [call EXCEPT !.stats = calculateStats(call.content)]
  /\ last' = [op |-> "calculateStats", view |-> 0, at |-> 0]
  /\ UNCHANGED <<loaded, DEFAULT_SETTINGS, settings, data, saving, views, rerender,
                 nChanges, static>>

\* buildStatsString(stats, settings) returns
BuildStatsString ==
  /\ call # Null
  /\ call.stats # Null
  /\ call.statsString = Null
  /\ call' = [call EXCEPT !.statsString = buildStatsString(call.stats, call.settings)]
  /\ last' = [op |-> "buildStatsString", view |-> 0, at |-> 0]
  /\ UNCHANGED <<loaded, DEFAULT_SETTINGS, settings, data, saving, views, rerender,
                 nChanges, static>>

\* createEOFStatsElement(stats, settings) returns
CreateEOFStatsElement ==
  /\ call # Null
  /\ call.stats # Null
  /\ call.el = Null
  /\ call' = [call EXCEPT !.el = createEOFStatsElement(call.stats, call.settings)]
  /\ last' = [op |-> "createEOFStatsElement", view |-> 0, at |-> 0]
  /\ UNCHANGED <<loaded, DEFAULT_SETTINGS, settings, data, saving, views, rerender,
                 nChanges, static>>

InitPure == InitWith({Null})
  /\ call \in Calls /\ last = [op |-> "init", view |-> 0, at |-> 0]

NextPure ==
  \/ CalculateStats
  \/ BuildStatsString
  \/ CreateEOFStatsElement

SpecPure == InitPure /\ [][NextPure]_vars

\* ------------------------------------------ both surfaces on the same file
\* a leaf edited in live preview and the same file rendered in reading view
NextSurfaces ==
  \/ OnLoad
  \/ OnChangeShowUrls
  \/ \E i \in 1..Len(saving) : SaveDataResolve(i)
  \/ \E v \in ViewIds : OpenView(v)
  \/ \E v \in ViewIds : Dispatch(v)
  \/ RenderPass
  \/ \E k \in 1..Len(fragments) : PostProcess(k)
  \/ \E k \in 1..Len(fragments) : CachedReadResolve(k)

SpecSurfaces == Init /\ [][NextSurfaces]_vars


\* ------------------------------------------------------------------ claims
\* the footers a live view displays
Widgets(v) == {d.widget : d \in views[v].decorations}

\* C1: in every state of an open live view, after attachment, edits anywhere
\* in the text, selection transactions and reconfigurations, the statistics of
\* the displayed footer are calculateStats of the buffer's whole current text.
C1_FooterStatsAreCurrent ==
  \A v \in ViewIds :
    views[v].open =>
      /\ views[v].decorations # {}
      /\ \A w \in Widgets(v) : w.stats = calculateStats(views[v].doc)

\* an edit at offset 0 of a two-lexeme buffer has just made the text a URL
C1_Witness ==
  \E v \in ViewIds :
    /\ last = [op |-> "edit", view |-> v, at |-> 0]
    /\ views[v].doc = <<"http://", "a">>
    /\ \A w \in Widgets(v) : w.stats = [urls |-> 1, links |-> 0]

\* C2: an open live view's decoration set holds exactly one footer, anchored
\* at the current length of the document.
C2_OneFooterAtDocumentEnd ==
  \A v \in ViewIds :
    views[v].open =>
      /\ Cardinality(views[v].decorations) = 1
      /\ \A d \in views[v].decorations : d.from = StrLen(views[v].doc)

\* a selection transaction has just run on a buffer of 8 code units
C2_Witness ==
  \E v \in ViewIds :
    /\ last.op = "select" /\ last.view = v
    /\ views[v].doc = <<"http://", "a">>
    /\ \A d \in views[v].decorations : d.from = 8

\* C3: a transaction that does not change the text leaves every footer of
\* the view as it was (statistics and configuration snapshot) and only remaps
\* its anchor; a transaction that changes the text rebuilds the footer from
\* the new text and the configuration current at that moment.
C3_RecomputeOnlyOnTextChange ==
  [][\A v \in ViewIds :
       /\ (last'.op = "select" /\ last'.view = v) =>
            /\ Widgets(v)' = Widgets(v)
            /\ views'[v].doc = views[v].doc
            /\ \A d \in views'[v].decorations : d.from = StrLen(views[v].doc)
       /\ (last'.op = "edit" /\ last'.view = v) =>
            \A d \in views'[v].decorations :
              /\ d.widget.stats = calculateStats(views'[v].doc)
              /\ Deref(d.widget.settings, settings') = settings']_vars

\* a selection transaction has just run on a view whose footer was built
\* before the last settings mutation: the footer still holds the old values
C3_Witness ==
  \E v \in ViewIds :
    /\ last.op = "select" /\ last.view = v
    /\ \E w \in Widgets(v) : Deref(w.settings, settings) # settings

\* C4: when saveData has resolved and saveSettings has run to its end, every
\* open live view displays the footer of its text under the configuration
\* now in force, in that same step; with showUrls off and showLinks on the
\* stats line is the Links segment alone, with no separator.
C4_SaveReconfiguresEveryView ==
  last.op = "saveResolved" =>
    \A v \in ViewIds :
      views[v].open =>
        /\ Cardinality(Widgets(v)) = 1
        /\ \A w \in Widgets(v) :
             /\ Deref(w.settings, settings) = settings
             /\ toDOM(w, settings) =
                  createEOFStatsElement(calculateStats(views[v].doc), settings)
             /\ (~settings.showUrls /\ settings.showLinks) =>
                  LET line == toDOM(w, settings).children[1]
                  IN  /\ line.cls = "eof-stats-line"
                      /\ line.text[1] = "Links: "
                      /\ \A i \in 1..Len(line.text) :
                           line.text[i] \notin {" | ", "URLs: "}

\* a save has just resolved with every view open, one of them on a URL, after
\* the stats color was changed; URLs are off and links on
C4_Witness ==
  /\ last.op = "saveResolved"
  /\ \A v \in ViewIds : views[v].open
  /\ \E v \in ViewIds : views[v].doc = <<"http://", "a">>
  /\ ~settings.showUrls /\ settings.showLinks
  /\ settings.statsColor = "#ff0000"
  /\ data = settings

\* C5: a footer holds its own copy of the configuration: a mutation of
\* plugin.settings leaves the values of every footer already built as they
\* were, and a footer that replaces another compares unequal to it under eq
\* whenever the configurations they were built with differ in a field.
C5_FooterOwnsItsConfiguration ==
  [][\A v \in ViewIds : \A d \in views[v].decorations :
       /\ (settings' # settings /\ views' = views) =>
            Deref(d.widget.settings, settings')
              = Deref(d.widget.settings, settings)
       /\ \A e \in views'[v].decorations :
            (\E f \in Fields :
               Deref(d.widget.settings, settings)[f]
                 # Deref(e.widget.settings, settings')[f])
              => ~WidgetEq(d.widget, e.widget, settings')]_vars

\* two views on equal statistics, one footer built before a mutation of
\* showLinks and one rebuilt by an edit after it: they are unequal under eq
C5_Witness ==
  \E v, u \in ViewIds :
    /\ last.op = "edit" /\ last.view = v
    /\ views[u].open /\ u # v
    /\ \E w \in Widgets(v) : \E x \in Widgets(u) :
         /\ w.stats = x.stats
         /\ Deref(w.settings, settings) = settings
         /\ Deref(x.settings, settings).showLinks # settings.showLinks
         /\ ~WidgetEq(w, x, settings)

\* the index of the last line of a text: the number of its line breaks
LastLine(content) == Cardinality({i \in 1..Len(content) : content[i] = NL})

\* the footers appended to the sections of the pass, in all
RECURSIVE Footers(_)
Footers(k) == IF k = 0 THEN 0 ELSE Len(fragments[k].el) + Footers(k - 1)

\* C6: a section whose read completed has a footer appended if and only if
\* its lineEnd is at or beyond the last line index of the content read; a
\* section ending before the last line is left as it was.
C6_FooterIffTerminalFragment ==
  \A k \in 1..Len(fragments) :
    fragments[k].st = "resolved" =>
      /\ (fragments[k].el # <<>>)
           <=> (fragments[k].info.lineEnd >= LastLine(fragments[k].content))
      /\ fragments[k].info.lineEnd < LastLine(fragments[k].content)
           => fragments[k].el = <<>>

\* the read of a section ending before the last line has just completed, and
\* the last section of the same pass has its footer
C6_Witness ==
  /\ Len(fragments) >= 2
  /\ last.op = "readResolved" /\ last.view = 1
  /\ fragments[1].st = "resolved" /\ fragments[1].el = <<>>
  /\ fragments[1].info.lineEnd < LastLine(fragments[1].content)
  /\ fragments[Len(fragments)].el # <<>>

\* every section of the pass was handed to the post processor and its read
\* has completed
PassRead ==
  /\ Len(fragments) >= 1
  /\ \A k \in 1..Len(fragments) : fragments[k].st = "resolved"

\* C7 as claimed: once every section of a pass has been read, the pass has
\* appended exactly one footer, to the last section, whatever the order of the
\* completions and whatever happened to the document in between.
C7_ExactlyOnceEvenIfDocumentChanges ==
  PassRead =>
    /\ Footers(Len(fragments)) = 1
    /\ Len(fragments[Len(fragments)].el) = 1

\* C7 as amended: no section ever holds more than one footer; and once every
\* section of a pass has been read, with every read returning a content whose
\* last line index is the lineEnd of the last section, the pass has appended
\* exactly one footer, to the last section.
C7_ExactlyOnceIfLineCountStable ==
  /\ \A k \in 1..Len(fragments) : Len(fragments[k].el) <= 1
  /\ (/\ PassRead
      /\ \A k \in 1..Len(fragments) :
           LastLine(fragments[k].content)
             = fragments[Len(fragments)].info.lineEnd)
       => /\ Footers(Len(fragments)) = 1
          /\ Len(fragments[Len(fragments)].el) = 1

\* a pass of three sections read in an order that ends with the first one,
\* the document unchanged: one footer, on the third section
C7_Witness ==
  /\ Len(fragments) = 3
  /\ PassRead
  /\ last.op = "readResolved" /\ last.view = 1
  /\ \A k \in 1..3 : fragments[k].content = file.content
  /\ Footers(3) = 1
  /\ Len(fragments[3].el) = 1

\* C8: when the file is not found at the path, or the read of it fails, the
\* section gets no footer, and no exception or unhandled rejection reaches the
\* render pipeline.
C8_MissingFileFailsSilently ==
  /\ ~unhandled
  /\ \A k \in 1..Len(fragments) :
       (\/ fragments[k].st = "rejected"
        \/ (fragments[k].st = "returned" /\ fragments[k].lookedUp))
         => fragments[k].el = <<>>

\* the file was deleted while a read was pending and the read has just failed;
\* another section was processed after the deletion and found no file
C8_Witness ==
  /\ last.op = "readRejected"
  /\ file.kind = "none"
  /\ \E k \in 1..Len(fragments) : fragments[k].st = "rejected"
  /\ \E k \in 1..Len(fragments) :
       fragments[k].st = "returned" /\ fragments[k].lookedUp

\* C9: a section for which getSectionInfo gave nothing is skipped: no file
\* lookup, no read, no footer, no error.
C9_NoSectionInfoSkipsFragment ==
  \A k \in 1..Len(fragments) :
    (fragments[k].info = Null /\ fragments[k].st # "rendered") =>
      /\ fragments[k].st = "returned"
      /\ ~fragments[k].lookedUp
      /\ fragments[k].el = <<>>
      /\ ~unhandled

\* the post processor has just returned from a section without section info
C9_Witness ==
  \E k \in 1..Len(fragments) :
    /\ last = [op |-> "postProcess", view |-> k, at |-> 0]
    /\ fragments[k].info = Null
    /\ fragments[k].st = "returned"

\* C10: right after loadSettings each field holds the persisted value if the
\* persisted record has the field and the compiled-in default if not; the
\* defaults object is never modified; and once loaded the record has all five
\* fields, whatever the settings tab did to it.
C10_SettingsFullyPopulated ==
  /\ DEFAULT_SETTINGS = DefaultSettingsValue
  /\ loaded => DOMAIN settings = Fields
  /\ last.op = "onload" =>
       \A f \in Fields :
         settings[f] = IF data # Null /\ f \in DOMAIN data
                       THEN data[f] ELSE DefaultSettingsValue[f]

\* loaded from a record that has two of the five fields
C10_Witness ==
  /\ last.op = "onload"
  /\ data = [showLinks |-> FALSE, eofColor |-> "#0000ff"]
  /\ settings = [showUrls |-> TRUE, showLinks |-> FALSE, statsColor |-> "#999999",
                 lineColor |-> "#999999", eofColor |-> "#0000ff"]

\* C11: saveSettings persists first and propagates afterwards. The handler's
\* step hands saveData the full record as it is after the mutation and touches
\* neither the views nor the re-render request nor the store; the views are
\* told only in the step in which a pending saveData resolves: that step
\* stores the record that save was started with, gives every open view a
\* footer built from plugin.settings and asks every open leaf's reading view
\* to re-render; no other step raises a re-render request.
C11_PersistThenPropagate ==
  [][/\ last'.op = "onChange" =>
          /\ Len(saving') = Len(saving) + 1
          /\ saving'[Len(saving')] = settings'
          /\ DOMAIN saving'[Len(saving')] = Fields
          /\ \A i \in 1..Len(saving) : saving'[i] = saving[i]
          /\ views' = views
          /\ rerender' = rerender
          /\ data' = data
     /\ last'.op = "saveResolved" =>
          /\ \E i \in 1..Len(saving) :
               data' = saving[i] /\ saving' = RemoveAt(saving, i)
          /\ \A v \in ViewIds :
               views[v].open =>
                 views'[v].decorations = FieldCreate(views[v].doc, settings')
          /\ (\E v \in ViewIds : views[v].open) => rerender'
     /\ (rerender' /\ ~rerender) => last'.op = "saveResolved"
     /\ data' # data => last'.op = "saveResolved"
    ]_vars

\* a save has resolved with a view open: the store holds the record, the view
\* shows the new stats color and a re-render is requested, while a second
\* save is still waiting for its persist
C11_Witness ==
  /\ last.op = "saveResolved"
  /\ \E v \in ViewIds :
       /\ views[v].open
       /\ \A w \in Widgets(v) : Deref(w.settings, settings).statsColor = "#ff0000"
  /\ rerender
  /\ Len(saving) = 1
  /\ data # Null /\ DOMAIN data = Fields

\* C12: overlapping saves do not block each other and the last one wins.
\* The record a handler starts its save with is plugin.settings as it is
\* then, holding every mutation made so far, saved or not; any pending
\* saveData may resolve next, whatever its place in the order the saves were
\* started in; and whenever a saveData has just resolved, the first or the
\* last of them and in either order, the footer of every open view is the
\* one built from the view's text and plugin.settings as they are now.
C12_LastSaveWins ==
  /\ last.op = "onChange" => Len(saving) > 0 /\ saving[Len(saving)] = settings
  /\ \A i \in 1..Len(saving) : ENABLED SaveDataResolve(i)
  /\ last.op = "saveResolved" =>
       \A v \in ViewIds :
         views[v].open =>
           /\ Widgets(v) # {}
           /\ \A w \in Widgets(v) :
                /\ \A f \in Fields : Deref(w.settings, settings)[f] = settings[f]
                /\ w.stats = calculateStats(views[v].doc)

\* two saves overlapped and both have resolved, the one started first
\* resolving last: the store holds the older record (links still on), the
\* view shows both mutations (red stats line, links off)
C12_Witness ==
  /\ last.op = "saveResolved"
  /\ saving = <<>>
  /\ nChanges = 2
  /\ settings.statsColor = "#ff0000" /\ ~settings.showLinks
  /\ data # Null /\ DOMAIN data = Fields
  /\ data.showLinks /\ data.statsColor = "#ff0000"
  /\ \E v \in ViewIds :
       /\ views[v].open
       /\ \A w \in Widgets(v) :
            /\ Deref(w.settings, settings).statsColor = "#ff0000"
            /\ ~Deref(w.settings, settings).showLinks

\* C13: the string buildStatsString returns lists the enabled segments in
\* the fixed order URLs, Links: it is empty when both toggles are off; with
\* one toggle on it is that segment, label then number, and holds no " | ";
\* with both on it is the URLs segment, one " | ", the Links segment.
C13_SegmentsInFixedOrder ==
  (call # Null /\ call.statsString # Null) =>
    LET str == call.statsString
        u == formatNumber(call.stats.urls)
        l == formatNumber(call.stats.links)
        seps == {i \in 1..Len(str) : str[i] = " | "}
    IN  /\ (~call.settings.showUrls /\ ~call.settings.showLinks) => str = <<>>
        /\ (call.settings.showUrls /\ ~call.settings.showLinks) =>
             str = <<"URLs: ">> \o u /\ seps = {}
        /\ (~call.settings.showUrls /\ call.settings.showLinks) =>
             str = <<"Links: ">> \o l /\ seps = {}
        /\ (call.settings.showUrls /\ call.settings.showLinks) =>
             /\ str = <<"URLs: ">> \o u \o <<" | ">> \o <<"Links: ">> \o l
             /\ Cardinality(seps) = 1
             /\ str[1] = "URLs: "
             /\ \A i \in seps : str[i + 1] = "Links: "

\* both toggles on, counts 7 and 1,234: "URLs: 7 | Links: 1,234"
C13_Witness ==
  /\ call # Null
  /\ call.settings.showUrls /\ call.settings.showLinks
  /\ call.stats = [urls |-> 7, links |-> 1234]
  /\ call.statsString # Null
  /\ call.statsString = <<"URLs: ", "7", " | ", "Links: ", "1", ",", "2", "3", "4">>

\* C14: the footer createEOFStatsElement returns has a stats line, as its
\* first child and in statsColor, exactly when showUrls or showLinks is on,
\* and its last child is always the EOF block: a rule in lineColor, the
\* label "EOF" in eofColor, a rule in lineColor, in this order; with both
\* toggles off the EOF block is the footer's only child.
C14_StatsLineIffEnabled ==
  (call # Null /\ call.el # Null) =>
    LET kids == call.el.children
        lines == {i \in 1..Len(kids) : kids[i].cls = "eof-stats-line"}
        eof == kids[Len(kids)]
        enabled == call.settings.showUrls \/ call.settings.showLinks
    IN  /\ (lines # {}) <=> enabled
        /\ enabled => /\ Len(kids) = 2
                      /\ lines = {1}
                      /\ kids[1].color = call.settings.statsColor
                      /\ kids[1].text # <<>>
        /\ ~enabled => Len(kids) = 1
        /\ eof.cls = "eof-indicator"
        /\ Len(eof.children) = 3
        /\ eof.children[1].cls = "eof-line-horizontal"
        /\ eof.children[1].color = call.settings.lineColor
        /\ eof.children[1].text = <<>>
        /\ eof.children[2].cls = "eof-text"
        /\ eof.children[2].text = <<"EOF">>
        /\ eof.children[2].color = call.settings.eofColor
        /\ eof.children[3].cls = "eof-line-horizontal"
        /\ eof.children[3].color = call.settings.lineColor
        /\ eof.children[3].text = <<>>

\* a footer rendered with both toggles off and three different colors: the
\* EOF block alone, green rules around a blue label
C14_Witness ==
  /\ call # Null
  /\ call.el # Null
  /\ ~call.settings.showUrls /\ ~call.settings.showLinks
  /\ call.stats.urls = 7
  /\ call.settings.lineColor = "#00ff00" /\ call.settings.eofColor = "#0000ff"
  /\ Len(call.el.children) = 1
  /\ call.el.children[1].children[2].color = "#0000ff"

\* C15: the two surfaces draw the same footer. When a read of the reading
\* view has just completed and appended a footer, every live view whose
\* buffer holds the text that was read and whose footer was built with the
\* configuration as it is now shows a footer equal to the appended one in
\* every element, text and color.
C15_SurfacesAgree ==
  (last.op = "readResolved" /\ fragments[last.view].el # <<>>) =>
    \A v \in ViewIds :
      (views[v].open /\ views[v].doc = fragments[last.view].content) =>
        \A w \in Widgets(v) :
          Deref(w.settings, settings) = settings =>
            \A i \in 1..Len(fragments[last.view].el) :
              toDOM(w, settings) = fragments[last.view].el[i]

\* the reading view has just got its footer for "http://a" while a live view
\* holds the same text under the same configuration: URLs on, so the footer
\* has a stats line
C15_Witness ==
  /\ last.op = "readResolved"
  /\ Len(fragments[last.view].el) = 1
  /\ settings.showUrls
  /\ Len(fragments[last.view].el[1].children) = 2
  /\ \E v \in ViewIds :
       /\ views[v].open
       /\ views[v].doc = fragments[last.view].content
       /\ views[v].doc = <<"http://", "a">>
       /\ \A w \in Widgets(v) : Deref(w.settings, settings) = settings

\* the j-th lexeme of s is a line containing only "---"
DelimiterLine(s, j) ==
  /\ s[j] = "---"
  /\ j = 1 \/ s[j - 1] = NL
  /\ j = Len(s) \/ s[j + 1] = NL

\* s begins, at position 0, with a block delimited by two such lines
HasLeadingBlock(s) ==
  /\ Len(s) >= 3
  /\ DelimiterLine(s, 1)
  /\ \E j \in 3..Len(s) : DelimiterLine(s, j)

\* s after its leading block: what follows the first closing delimiter line
\* and the one newline after it
AfterLeadingBlock(s) ==
  LET j == CHOOSE k \in 3..Len(s) :
             DelimiterLine(s, k) /\ \A m \in 3..(k - 1) : ~DelimiterLine(s, m)
  IN  Drop(s, IF j < Len(s) THEN j + 2 ELSE j + 1)

\* the counts of the URL and link patterns over s as it stands
Scan(s) ==
  [urls |-> Cardinality(UrlMatches(s, 1)), links |-> Cardinality(LinkMatches(s, 1))]

\* C16: calculateStats scans a text that has no leading block unmodified,
\* counting every URL and link in it, and scans a text that has one from the
\* end of the block on, counting nothing inside the block.
C16_OnlyLeadingBlockIsSkipped ==
  (call # Null /\ call.given = "text" /\ call.stats # Null) =>
    call.stats = IF HasLeadingBlock(call.content)
                 THEN Scan(AfterLeadingBlock(call.content))
                 ELSE Scan(call.content)

\* "---http://a---" has been counted: no line of it holds only "---", and
\* its URL is not in the counts
C16_DashRunsTakenForBlock ==
  /\ call # Null
  /\ call.content = <<"---", "http://", "a", "---">>
  /\ ~HasLeadingBlock(call.content)
  /\ Scan(call.content).urls = 1
  /\ call.stats # Null
  /\ call.stats.urls = 0

\* the URL tokens of s, stated from the pattern: a token starts at a scheme
\* that no earlier token runs over, takes at least one lexeme after it and
\* runs on to the last lexeme before a stop character or the end
UrlTokens(s) ==
  {SubSeq(s, i, e) : <<i, e>> \in
     {t \in (1..Len(s)) \X (1..Len(s)) :
        /\ s[t[1]] \in {"http://", "https://"}
        /\ t[2] > t[1]
        /\ \A k \in (t[1] + 1)..t[2] : s[k] \notin UrlStop
        /\ t[2] = Len(s) \/ s[t[2] + 1] \in UrlStop
        /\ ~\E j \in 1..(t[1] - 1) :
              /\ s[j] \in {"http://", "https://"}
              /\ \A k \in (j + 1)..t[1] : s[k] \notin UrlStop}}

\* C17: the URL count calculateStats returns is the number of distinct URL
\* tokens of the text it scans (the text after the front matter is removed),
\* tokens compared lexeme by lexeme and case-sensitively, so that a token
\* that occurs again adds nothing; the empty text gives the counts (0, 0).
C17_UrlsCountedOncePerToken ==
  (call # Null /\ call.given = "text" /\ call.stats # Null) =>
    LET s == StripFrontmatter(call.content)
    IN  /\ call.stats.urls = Cardinality(UrlTokens(s))
        /\ call.stats.urls >= 0
        /\ call.stats.urls <= UrlMatchCount(s, 1)
        /\ call.content = <<>> => call.stats = [urls |-> 0, links |-> 0]
        /\ \A i \in 1..Len(s) :
             (s[i] \in {"http://", "https://"} /\ (i = 1 \/ s[i - 1] \in UrlStop)
                /\ i < Len(s) /\ s[i + 1] \notin UrlStop) => call.stats.urls >= 1

\* "http://a http://A http://a http://" has been counted: http://a twice,
\* http://A once and a bare scheme, two URLs
C17_Witness ==
  /\ call # Null
  /\ call.content =
       <<"http://", "a", SP, "http://", "A", SP, "http://", "a", SP, "http://">>
  /\ call.stats # Null
  /\ call.stats.urls = 2
  /\ UrlMatchCount(call.content, 1) = 3

\* the base targets of s, stated from the pattern: a reference opens at a
\* "[[" that no earlier reference's target runs over, and its base target is
\* the text after it, one lexeme at least, up to the first "]", "|" or "#"
\* (or the end of the text)
BaseTargets(s) ==
  {SubSeq(s, t[1] + 2, t[2]) : t \in
     {t \in (1..Len(s)) \X (1..Len(s)) :
        /\ t[1] + 2 <= t[2]
        /\ s[t[1]] = "[" /\ s[t[1] + 1] = "["
        /\ \A k \in (t[1] + 2)..t[2] : s[k] \notin {"]", "|", "#"}
        /\ t[2] = Len(s) \/ s[t[2] + 1] \in {"]", "|", "#"}
        /\ ~\E j \in 1..(t[1] - 1) :
              /\ s[j] = "[" /\ s[j + 1] = "["
              /\ \A k \in (j + 2)..(t[1] + 1) : s[k] \notin {"]", "|", "#"}}}

\* C18: the link count calculateStats returns is the number of distinct base
\* targets of the text it scans: a reference with an alias or a section
\* counts under the text before the "|" or "#", references to the same base
\* target count once together and references to different ones separately.
C18_LinksCountedOncePerTarget ==
  (call # Null /\ call.given = "text" /\ call.stats # Null) =>
    LET s == StripFrontmatter(call.content)
    IN  /\ call.stats.links = Cardinality(BaseTargets(s))
        /\ \A x \in BaseTargets(s) :
             x # <<>> /\ \A k \in 1..Len(x) : x[k] \notin {"]", "|", "#"}
        /\ s = <<"[", "[", "a", "|", "A">> => call.stats.links = 1
        /\ s = <<"[", "[", "a", "]">> => call.stats.links = 1
        /\ s = <<"[", "[", "|", "a">> => call.stats.links = 0
        /\ s = <<"[", "[", "a", "]", "]", "[", "[", "A", "]", "]",
                 "[", "[", "a", SP, "]", "]">> => call.stats.links = 3

\* "[[a]] [[a|A]] [[a#A]]" has been counted: one link
C18_Witness ==
  /\ call # Null
  /\ call.content =
       <<"[", "[", "a", "]", "]", SP, "[", "[", "a", "|", "A", "]", "]", SP,
         "[", "[", "a", "#", "A", "]", "]">>
  /\ call.stats # Null
  /\ call.stats.links = 1

\* what an invocation leaves in its section, as a function of the section's
\* line range, the content read and the configuration at that moment
Outcome(info, content, s) ==
  IF info.lineEnd >= LastLine(content)
  THEN <<createEOFStatsElement(calculateStats(content), s)>>
  ELSE <<>>

\* C19: the static adapter keeps nothing from one invocation or pass to the
\* next. A pass starts with sections that carry nothing of the pass before;
\* a section whose read has not completed has no footer; and what a section
\* holds once its read has completed is Outcome of the section's own line
\* range, the content that read returned and the configuration of that
\* moment (plugin.settings itself when the read has only just completed),
\* whatever the other sections hold and whatever happened before.
C19_OutcomeDependsOnItsInputsOnly ==
  /\ last.op = "render" =>
       \A k \in 1..Len(fragments) :
         fragments[k].st = "rendered" /\ ~fragments[k].lookedUp
  /\ \A k \in 1..Len(fragments) :
       fragments[k].st # "resolved" => fragments[k].el = <<>>
  /\ \A k \in 1..Len(fragments) :
       fragments[k].st = "resolved" =>
         \E s \in SettingsInputs :
           fragments[k].el = Outcome(fragments[k].info, fragments[k].content, s)
  /\ last.op = "readResolved" =>
       /\ fragments[last.view].st = "resolved"
       /\ fragments[last.view].content = file.content
       /\ fragments[last.view].el =
            Outcome(fragments[last.view].info, file.content, settings)

\* a pass over a document that was rewritten since it was rendered: two
\* sections have completed their reads, each on the content it read, and both
\* ended with a footer
C19_Witness ==
  /\ last.op = "readResolved"
  /\ \E k, m \in 1..Len(fragments) :
       /\ k # m
       /\ fragments[k].st = "resolved" /\ fragments[m].st = "resolved"
       /\ fragments[k].el # <<>> /\ fragments[m].el # <<>>
       /\ fragments[k].el =
            Outcome(fragments[k].info, fragments[k].content, settings)

\* the fields other than f are in the next state what they are now
OnlyChanges(f) == \A g \in Fields \ {f} : settings'[g] = settings[g]

\* C20: no color of the loaded settings is ever the empty string, and every
\* handler of the settings tab assigns its own field only: a toggle leaves
\* the three colors and the other toggle as they were, and a color handler
\* leaves the other four fields as they were and sets its color to what was
\* typed or, the input cleared, to "#999999".
C20_ColorsNeverEmpty ==
  [][/\ loaded' =>
          \A f \in {"statsColor", "lineColor", "eofColor"} : settings'[f] # ""
     /\ OnChangeShowUrls => OnlyChanges("showUrls")
     /\ OnChangeShowLinks => OnlyChanges("showLinks")
     /\ OnChangeStatsColor =>
          /\ OnlyChanges("statsColor")
          /\ settings'.statsColor \in (ColorInputs \ {""}) \cup {"#999999"}
     /\ OnChangeLineColor =>
          /\ OnlyChanges("lineColor")
          /\ settings'.lineColor \in (ColorInputs \ {""}) \cup {"#999999"}
     /\ OnChangeEofColor =>
          /\ OnlyChanges("eofColor")
          /\ settings'.eofColor \in (ColorInputs \ {""}) \cup {"#999999"}
     /\ last'.op = "onChange" =>
          \E f \in Fields : OnlyChanges(f)
    ]_vars

\* the stats color was loaded as red and the input has just been cleared: the
\* field is "#999999" while the store still holds red, the other two colors
\* are those that were loaded
C20_Witness ==
  /\ last.op = "onChange"
  /\ data = [statsColor |-> "#ff0000", lineColor |-> "#00ff00", eofColor |-> "#0000ff"]
  /\ settings.statsColor = "#999999"
  /\ settings.lineColor = "#00ff00" /\ settings.eofColor = "#0000ff"
  /\ nChanges = 1

\* C21: eq compares footers by value. For the footers of any two views, two
\* objects built at different times from different buffers, eq is true
\* exactly when their URL counts, their link counts and each of their five
\* configuration values are equal; it is reflexive and symmetric; and two
\* footers that are eq draw the same element, so keeping the old one
\* displays nothing stale.
C21_EqIsByValue ==
  \A v1, v2 \in ViewIds :
    \A w1 \in Widgets(v1), w2 \in Widgets(v2) :
      LET sameValues ==
            /\ w1.stats.urls = w2.stats.urls
            /\ w1.stats.links = w2.stats.links
            /\ \A f \in Fields :
                 Deref(w1.settings, settings)[f] = Deref(w2.settings, settings)[f]
      IN  /\ WidgetEq(w1, w2, settings) <=> sameValues
          /\ WidgetEq(w1, w2, settings) <=> WidgetEq(w2, w1, settings)
          /\ WidgetEq(w1, w1, settings)
          /\ WidgetEq(w1, w2, settings) => toDOM(w1, settings) = toDOM(w2, settings)
          /\ toDOM(w1, settings) # toDOM(w2, settings) => ~WidgetEq(w1, w2, settings)

\* two views on different buffers with the same counts, their footers built
\* under the same red stats color: two objects that are eq
C21_Witness ==
  /\ views[1].open /\ views[2].open
  /\ views[1].doc = <<"a">> /\ views[2].doc = <<"a", "a">>
  /\ \A w1 \in Widgets(1), w2 \in Widgets(2) :
       /\ WidgetEq(w1, w2, settings)
       /\ Deref(w1.settings, settings).statsColor = "#ff0000"
  /\ Widgets(1) # {} /\ Widgets(2) # {}

\* C22: the reading-view footer is built when the read completes, from the
\* configuration of that moment. The post processor's call itself appends
\* nothing: it ends with the section waiting for its read or given up. When
\* a read has just completed with a footer, the footer is the one
\* plugin.settings gives now, and if showUrls was changed since the call it
\* is not the footer the configuration of the call would have given.
C22_FooterUsesConfigAtCompletion ==
  /\ last.op = "postProcess" =>
       /\ fragments[last.view].st \in {"reading", "returned"}
       /\ fragments[last.view].el = <<>>
  /\ \A k \in 1..Len(fragments) :
       fragments[k].st = "reading" => fragments[k].el = <<>>
  /\ (last.op = "readResolved" /\ fragments[last.view].el # <<>>) =>
       LET f == fragments[last.view]
       IN  /\ Len(f.el) = 1
           /\ f.el[1] = createEOFStatsElement(calculateStats(file.content), settings)
           /\ f.el[1].children[1].text =
                buildStatsString(calculateStats(file.content), settings)
           /\ f.invokedWith.showUrls # settings.showUrls =>
                f.el[1] # createEOFStatsElement(calculateStats(file.content),
                                                f.invokedWith)

\* the adapter was called for the section of "http://a" while URLs were on,
\* the toggle was switched off before the read completed, and the footer the
\* read has just appended has the Links segment alone
C22_Witness ==
  /\ last.op = "readResolved"
  /\ fragments[last.view].el # <<>>
  /\ fragments[last.view].content = <<"http://", "a">>
  /\ fragments[last.view].invokedWith.showUrls
  /\ ~settings.showUrls
  /\ fragments[last.view].el[1].children[1].text = <<"Links: ", "0">>

\* what a load would make of the stored record: the configuration persisted
Persisted == ObjectAssign(ObjectAssign(<<>>, DefaultSettingsValue), data)

\* C23: plugin.settings is mutated before the persist starts and is never
\* rolled back. A handler's step changes plugin.settings and hands that
\* record to saveData while the store is as it was; a persist that fails
\* leaves plugin.settings, the store, every view and the re-render request
\* as they were; and an edit that changes the text, whether a persist is
\* pending, has failed or neither, leaves the edited view with a footer built
\* from plugin.settings as it is in memory.
C23_NoRollbackOnFailedPersist ==
  [][/\ last'.op = "onChange" =>
          /\ data' = data
          /\ Len(saving') = Len(saving) + 1
          /\ saving'[Len(saving')] = settings'
     /\ last'.op = "saveRejected" =>
          /\ settings' = settings
          /\ data' = data
          /\ views' = views
          /\ rerender' = rerender
          /\ Len(saving') = Len(saving) - 1
     /\ last'.op = "edit" =>
          /\ settings' = settings
          /\ views'[last'.view].decorations # {}
          /\ \A d \in views'[last'.view].decorations :
               /\ Deref(d.widget.settings, settings') = settings
               /\ toDOM(d.widget, settings') =
                    createEOFStatsElement(calculateStats(views'[last'.view].doc),
                                          settings)
    ]_vars

\* the one save made has failed (the store still holds the two fields it was
\* loaded from) and a view has then been edited: its footer is red, as
\* plugin.settings says, which is not what is persisted
C23_Witness ==
  /\ last.op = "edit"
  /\ nChanges = 1
  /\ saving = <<>>
  /\ data = [showUrls |-> FALSE, lineColor |-> "#00ff00"]
  /\ settings.statsColor = "#ff0000"
  /\ settings # Persisted
  /\ \A w \in Widgets(last.view) :
       /\ Deref(w.settings, settings).statsColor = "#ff0000"
       /\ toDOM(w, settings) # createEOFStatsElement(w.stats, Persisted)
  /\ Widgets(last.view) # {}

====
